---- MODULE Spec2Model ----
(***************************************************************************)
(* The DWA local planner of openrr-nav (grid_map/src/dwa_planner.rs):      *)
(* sample_velocity, forward_simulation, accumulate_values_by_positions and *)
(* plan_local_path, driven by the control loop of dwa_planner_test.        *)
(*                                                                         *)
(* Numbers.  Velocities, accelerations, times and positions are integers  *)
(* (one position unit is half a grid cell, one angle unit is a quarter     *)
(* turn, so that the rotation of a pose is exact).  Costs and weights are  *)
(* f64 values kept in fixed point with denominator Den: the f64 value x is *)
(* the integer Den * x.  The f64 operations the planner uses on costs      *)
(* (FAdd, FMul, FLt) keep the IEEE-754 behaviour that decides the          *)
(* selection: f64::MAX is finite, a result beyond it overflows to an       *)
(* infinity, a small addend is absorbed by a huge one, inf - inf is NaN    *)
(* and every comparison with NaN is false.                                 *)
(***************************************************************************)
EXTENDS Integers, Sequences, FiniteSets, TLC

VARIABLES planner, maps, current_pose, current_velocity,
          pc, velocities, target_velocity, poses, plan, ticks,
          ui_checkboxes, res_positions, res_is_run, map_type, weights

\* The state of the planner and of its control loop.
planner_vars == <<planner, maps, current_pose, current_velocity,
                  pc, velocities, target_velocity, poses, plan, ticks>>

\* The resources of the viewer (openrr-nav-viewer/src/bevy_app.rs).
viewer_vars == <<ui_checkboxes, res_positions, res_is_run, map_type, weights>>

vars == <<planner_vars, viewer_vars>>

(***************************************************************************)
(* Bounds of the model.                                                    *)
(***************************************************************************)
MaxSample == 2
MaxDuration == 3
MaxTicks == 2

(***************************************************************************)
(* f64                                                                     *)
(***************************************************************************)
Den == 2
F64_MAX == 16777216
Ulp == F64_MAX \div 2
INFINITY == 2 * F64_MAX
NEG_INFINITY == -INFINITY
NAN == 4 * F64_MAX

Abs(a) == IF a < 0 THEN -a ELSE a
Sign(a) == IF a < 0 THEN -1 ELSE IF a > 0 THEN 1 ELSE 0

IsFinite(a) == a # NAN /\ a # INFINITY /\ a # NEG_INFINITY

\* The f64 value of an integer (`v as f64`).
AsF64(v) == Den * v

\* Rounding of an exact result to f64.  The model's f64 holds the small
\* values (below Ulp / 2) exactly and, above them, the multiples of Ulp up
\* to f64::MAX: a huge value absorbs a small addend, and a result beyond
\* f64::MAX is an infinity.
FRound(s) ==
    IF 2 * Abs(s) < Ulp THEN s
    ELSE LET q == Sign(s) * Ulp * ((2 * Abs(s) + Ulp) \div (2 * Ulp))
         IN  IF q > F64_MAX THEN INFINITY
             ELSE IF q < -F64_MAX THEN NEG_INFINITY
             ELSE q

FAdd(a, b) ==
    IF a = NAN \/ b = NAN THEN NAN
    ELSE IF a = INFINITY THEN (IF b = NEG_INFINITY THEN NAN ELSE INFINITY)
    ELSE IF a = NEG_INFINITY THEN (IF b = INFINITY THEN NAN ELSE NEG_INFINITY)
    ELSE IF ~IsFinite(b) THEN b
    ELSE FRound(a + b)

FMul(a, b) ==
    IF a = NAN \/ b = NAN THEN NAN
    ELSE IF ~IsFinite(a) \/ ~IsFinite(b)
         THEN (IF a = 0 \/ b = 0 THEN NAN
               ELSE IF Sign(a) * Sign(b) > 0 THEN INFINITY ELSE NEG_INFINITY)
    ELSE LET p == a * b
         IN  FRound(Sign(p) * (Abs(p) \div Den))

FLt(a, b) == a # NAN /\ b # NAN /\ a < b

\* f64::clamp (min <= max is asserted by the standard library).
Clamp(v, lo, hi) == IF v < lo THEN lo ELSE IF v > hi THEN hi ELSE v

\* The division of a velocity interval into n steps, at the resolution of
\* the model's velocities (rounded toward zero).
FDiv(a, n) == Sign(a) * (Abs(a) \div n)

(***************************************************************************)
(* Velocity, Pose                                                          *)
(***************************************************************************)
Velocity(x, theta) == [x |-> x, theta |-> theta]

Pose(x, y, th) == [x |-> x, y |-> y, th |-> th % 4]

Cos(th) == CASE th = 0 -> 1 [] th = 1 -> 0 [] th = 2 -> -1 [] th = 3 -> 0
Sin(th) == CASE th = 0 -> 0 [] th = 1 -> 1 [] th = 2 -> 0 [] th = 3 -> -1

\* Isometry2 multiplication a * b: b applied in the frame of a.
Compose(a, b) ==
    Pose(a.x + Cos(a.th) * b.x - Sin(a.th) * b.y,
         a.y + Sin(a.th) * b.x + Cos(a.th) * b.y,
         a.th + b.th)

velocity_to_pose(velocity, dt) == Pose(velocity.x * dt, 0, velocity.theta * dt)

Position(x, y) == [x |-> x, y |-> y]

(***************************************************************************)
(* Cell, GridMap, LayeredGridMap                                           *)
(***************************************************************************)
None == [some |-> FALSE]
Some(v) == [some |-> TRUE, v |-> v]

Uninitialized == [tag |-> "Uninitialized"]
Obstacle == [tag |-> "Obstacle"]
Value(v) == [tag |-> "Value", v |-> v]

\* ceil(a / b) for b > 0
CeilDiv(a, b) == -((-a) \div b)

\* GridMap::new: the cell counts are derived from the extents; `cells` is
\* the row-major array (index = row * width + col, from 0).
GridMap(min_point, max_point, resolution, cells) ==
    [min_point |-> min_point, max_point |-> max_point, resolution |-> resolution,
     width |-> CeilDiv(max_point.x - min_point.x, resolution),
     height |-> CeilDiv(max_point.y - min_point.y, resolution),
     cells |-> cells]

\* Conversions floor toward minus infinity after subtracting min_point; a
\* position outside [min_point, max_point) has no indices.
position_to_indices(map, p) ==
    IF /\ map.min_point.x <= p.x /\ p.x < map.max_point.x
       /\ map.min_point.y <= p.y /\ p.y < map.max_point.y
    THEN Some([col |-> (p.x - map.min_point.x) \div map.resolution,
               row |-> (p.y - map.min_point.y) \div map.resolution])
    ELSE None

to_index_by_indices(map, indices) == indices.row * map.width + indices.col

cell_by_position(map, p) ==
    LET i == position_to_indices(map, p)
    IN  IF i.some THEN Some(map.cells[to_index_by_indices(map, i.v)]) ELSE None

\* LayeredGridMap::layer
layer(layered, name) ==
    IF name \in DOMAIN layered THEN Some(layered[name]) ELSE None

(***************************************************************************)
(* accumulate_values_by_positions                                          *)
(***************************************************************************)
RECURSIVE accumulate_loop(_, _, _, _)
accumulate_loop(map, positions, k, cost) ==
    IF k > Len(positions) THEN cost
    ELSE LET opt == cell_by_position(map, positions[k])
         IN  IF opt.some
             THEN IF opt.v.tag = "Value"
                  THEN accumulate_loop(map, positions, k + 1,
                                       FAdd(cost, AsF64(opt.v.v)))
                  ELSE F64_MAX
             ELSE F64_MAX

accumulate_values_by_positions(map, positions) ==
    accumulate_loop(map, positions, 1, 0)

(***************************************************************************)
(* DwaPlanner                                                              *)
(***************************************************************************)
Limits(max_velocity, max_accel, min_velocity, min_accel) ==
    [max_velocity |-> max_velocity, max_accel |-> max_accel,
     min_velocity |-> min_velocity, min_accel |-> min_accel]

\* DwaPlanner::new.  `iter_order` is the order in which this instance's
\* HashMap yields the entries of map_name_weight: it is fixed when the map
\* is built and is not a function of the entries.
DwaPlanner(limits, map_name_weight, iter_order, controller_dt, simulation_duration, num_vel_sample) ==
    [limits |-> limits, map_name_weight |-> map_name_weight,
     iter_order |-> iter_order, controller_dt |-> controller_dt,
     simulation_duration |-> simulation_duration,
     num_vel_sample |-> num_vel_sample]

max_x_limit(self, v) ==
    Clamp(v.x + self.limits.max_accel.x * self.controller_dt,
          self.limits.min_velocity.x, self.limits.max_velocity.x)
min_x_limit(self, v) ==
    Clamp(v.x + self.limits.min_accel.x * self.controller_dt,
          self.limits.min_velocity.x, self.limits.max_velocity.x)
max_theta_limit(self, v) ==
    Clamp(v.theta + self.limits.max_accel.theta * self.controller_dt,
          self.limits.min_velocity.theta, self.limits.max_velocity.theta)
min_theta_limit(self, v) ==
    Clamp(v.theta + self.limits.min_accel.theta * self.controller_dt,
          self.limits.min_velocity.theta, self.limits.max_velocity.theta)

d_vel_x(self, v) ==
    FDiv(max_x_limit(self, v) - min_x_limit(self, v), self.num_vel_sample)
d_vel_theta(self, v) ==
    FDiv(max_theta_limit(self, v) - min_theta_limit(self, v), self.num_vel_sample)

\* for j in 0..(num_vel_sample + 1): push the grid sample (j, i)
RECURSIVE sample_inner(_, _, _, _, _)
sample_inner(self, v, i, j, acc) ==
    IF j >= self.num_vel_sample + 1 THEN acc
    ELSE sample_inner(self, v, i, j + 1,
            Append(acc, Velocity(min_x_limit(self, v) + d_vel_x(self, v) * j,
                                 min_theta_limit(self, v) + d_vel_theta(self, v) * i)))

\* sample_row without the push of the zero-linear-velocity sample
sample_row_no_zero(self, v, i, acc) == sample_inner(self, v, i, 0, acc)

\* the body of the outer loop: the row of grid samples, then the
\* zero-linear-velocity sample of that theta
sample_row(self, v, i, acc) ==
    Append(sample_inner(self, v, i, 0, acc),
           Velocity(0, min_theta_limit(self, v) + d_vel_theta(self, v) * i))

RECURSIVE sample_outer(_, _, _, _)
sample_outer(self, v, i, acc) ==
    IF i >= self.num_vel_sample + 1 THEN acc
    ELSE sample_outer(self, v, i + 1, sample_row(self, v, i, acc))

sample_velocity(self, current) == sample_outer(self, current, 0, <<>>)

\* (simulation_duration / controller_dt) as usize
num_steps(self) == self.simulation_duration \div self.controller_dt

\* simulation_loop pushing the pose before the step instead of after it
RECURSIVE simulation_loop_from_start(_, _, _, _)
simulation_loop_from_start(n, last_pose, diff, acc) ==
    IF n = 0 THEN acc
    ELSE simulation_loop_from_start(n - 1, Compose(last_pose, diff), diff,
                                    Append(acc, last_pose))

RECURSIVE simulation_loop(_, _, _, _)
simulation_loop(n, last_pose, diff, acc) ==
    IF n = 0 THEN acc
    ELSE LET next_pose == Compose(last_pose, diff)
         IN  simulation_loop(n - 1, next_pose, diff, Append(acc, next_pose))

forward_simulation(self, pose, target) ==
    simulation_loop(num_steps(self), pose,
                    velocity_to_pose(target, self.controller_dt), <<>>)

Plan(velocity, cost, path) == [velocity |-> velocity, cost |-> cost, path |-> path]

\* Plan::default()
PlanDefault == Plan(Velocity(0, 0), 0, <<>>)

\* candidate_plans simulating the current velocity for every candidate
candidate_plans_current_velocity(self, pose, current) ==
    LET vs == sample_velocity(self, current)
    IN  [k \in 1..Len(vs) |-> Plan(vs[k], 0, forward_simulation(self, pose, current))]

\* The candidate plans: one per sampled velocity, in sampling order.
candidate_plans(self, pose, current) ==
    LET vs == sample_velocity(self, current)
    IN  [k \in 1..Len(vs) |-> Plan(vs[k], 0, forward_simulation(self, pose, vs[k]))]

path_positions(path) ==
    [k \in 1..Len(path) |-> Position(path[k].x, path[k].y)]

\* v * accumulate_values_by_positions(maps.layer(name).unwrap(), ...)
layer_cost(self, layered, name, path) ==
    FMul(self.map_name_weight[name],
         accumulate_values_by_positions(layer(layered, name).v,
                                        path_positions(path)))

\* layers_loop passing over an absent layer instead of unwrapping it
RECURSIVE layers_loop_skip_missing(_, _, _, _, _)
layers_loop_skip_missing(self, layered, path, n, cost) ==
    IF n > Len(self.iter_order) THEN [panicked |-> FALSE, cost |-> cost]
    ELSE LET name == self.iter_order[n]
         IN  IF ~layer(layered, name).some
             THEN layers_loop_skip_missing(self, layered, path, n + 1, cost)
             ELSE layers_loop_skip_missing(self, layered, path, n + 1,
                      FAdd(cost, layer_cost(self, layered, name, path)))

\* for (name, v) in &self.map_name_weight: the n-th entry in the order of
\* the iteration.  unwrap() of an absent layer panics.
RECURSIVE layers_loop(_, _, _, _, _)
layers_loop(self, layered, path, n, all_layer_cost) ==
    IF n > Len(self.iter_order) THEN [panicked |-> FALSE, cost |-> all_layer_cost]
    ELSE LET name == self.iter_order[n]
         IN  IF ~layer(layered, name).some THEN [panicked |-> TRUE]
             ELSE layers_loop(self, layered, path, n + 1,
                              FAdd(all_layer_cost,
                                   layer_cost(self, layered, name, path)))

all_layer_cost(self, layered, path) == layers_loop(self, layered, path, 1, 0)

\* better with <= in the place of <
better_or_equal(cost, min_cost) == cost # NAN /\ min_cost # NAN /\ cost <= min_cost

\* if all_layer_cost < min_cost
better(cost, min_cost) == FLt(cost, min_cost)

\* for plan in plans
RECURSIVE plans_loop(_, _, _, _, _, _)
plans_loop(self, layered, plans, k, min_cost, selected_plan) ==
    IF k > Len(plans)
    THEN [panicked |-> FALSE,
          plan |-> Plan(selected_plan.velocity, min_cost, selected_plan.path)]
    ELSE LET c == all_layer_cost(self, layered, plans[k].path)
         IN  IF c.panicked THEN [panicked |-> TRUE]
             ELSE IF better(c.cost, min_cost)
                  THEN plans_loop(self, layered, plans, k + 1, c.cost, plans[k])
                  ELSE plans_loop(self, layered, plans, k + 1, min_cost, selected_plan)

plan_local_path(self, pose, current, layered) ==
    plans_loop(self, layered, candidate_plans(self, pose, current), 1,
               F64_MAX, PlanDefault)

(***************************************************************************)
(* The viewer (openrr-nav-viewer/src/bevy_app.rs): the resources the two   *)
(* systems share and what one run of each system does to them.  Plot       *)
(* coordinates are integers; a weight is kept in tenths, with `f32` set    *)
(* once the value has been through `as f32` and is no longer the f64 it    *)
(* was (0.0, 0.5 and 1.0 are the same in both widths).                     *)
(***************************************************************************)
MaxCoord == 1

PATH_DISTANCE_MAP_NAME == "path"
GOAL_DISTANCE_MAP_NAME == "goal"
OBSTACLE_DISTANCE_MAP_NAME == "obstacle"
DEFAULT_PATH_DISTANCE_WEIGHT == 8
DEFAULT_GOAL_DISTANCE_WEIGHT == 9
DEFAULT_OBSTACLE_DISTANCE_WEIGHT == 3

MapTypes == {"PathDistanceMap", "GoalDistanceMap", "ObstacleDistanceMap"}

\* UiCheckboxes::default()
UiCheckboxesDefault == [set_start |-> FALSE, set_goal |-> FALSE, restart |-> TRUE]

Weight(v) == [v |-> v, f32 |-> FALSE]

\* `w as f32`
AsF32(w) == IF w.v \in {0, 5, 10} THEN w ELSE [w EXCEPT !.f32 = TRUE]

\* The points of the plot the pointer can be at.
PlotPoints == {Position(x, y) : x \in 0..MaxCoord, y \in 0..MaxCoord}

\* The ends of the sliders' range 0.0..=1.0.
SliderValues == {0, 10}

\* What the widgets of the side panel report in one frame: the two
\* buttons, and one of the radio buttons, a dragged slider or the reset
\* button.
UiInputs ==
    [start_clicked : BOOLEAN, goal_clicked : BOOLEAN,
     radio : {None} \cup {Some(t) : t \in MapTypes},
     slider : {None}, reset : {FALSE}]
    \cup
    [start_clicked : BOOLEAN, goal_clicked : BOOLEAN, radio : {None},
     slider : {Some([name |-> n, v |-> v]) :
                  n \in {PATH_DISTANCE_MAP_NAME, GOAL_DISTANCE_MAP_NAME,
                         OBSTACLE_DISTANCE_MAP_NAME},
                  v \in SliderValues},
     reset : {FALSE}]
    \cup
    [start_clicked : BOOLEAN, goal_clicked : BOOLEAN, radio : {None},
     slider : {None}, reset : {TRUE}]

\* What the pointer reports over the central panel in one frame.
PointerInputs ==
    [pointer_coordinate : {None} \cup {Some(p) : p \in PlotPoints},
     button_pressed : BOOLEAN, is_pointer_over_area : BOOLEAN]

\* The weights the viewer is started with.
DefaultWeights ==
    [name \in {PATH_DISTANCE_MAP_NAME, GOAL_DISTANCE_MAP_NAME, OBSTACLE_DISTANCE_MAP_NAME} |->
        CASE name = PATH_DISTANCE_MAP_NAME -> Weight(DEFAULT_PATH_DISTANCE_WEIGHT)
          [] name = GOAL_DISTANCE_MAP_NAME -> Weight(DEFAULT_GOAL_DISTANCE_WEIGHT)
          [] name = OBSTACLE_DISTANCE_MAP_NAME -> Weight(DEFAULT_OBSTACLE_DISTANCE_WEIGHT)]

\* The resources as one record.
Resources(c, p, r, m, w) ==
    [ui_checkboxes |-> c, positions |-> p, is_run |-> r, map_type |-> m, weights |-> w]

\* if h_ui.button("Set Start").clicked() { ... }
set_start_button(c, clicked) ==
    IF clicked THEN [c EXCEPT !.set_start = ~c.set_start, !.set_goal = FALSE] ELSE c

\* set_goal_button without the clearing of set_start
set_goal_button_keeps_start(c, clicked) ==
    IF clicked THEN [c EXCEPT !.set_goal = ~c.set_goal] ELSE c

\* if h_ui.button("Set Goal").clicked() { ... }
set_goal_button(c, clicked) ==
    IF clicked THEN [c EXCEPT !.set_goal = ~c.set_goal, !.set_start = FALSE] ELSE c

\* The value one slider leaves in its variable: the stored weight as f32,
\* the dragged value, or the default when the reset button is clicked.
slider_value(res, inp, name, default) ==
    IF inp.reset THEN AsF32(Weight(default))
    ELSE IF inp.slider.some /\ inp.slider.v.name = name THEN Weight(inp.slider.v.v)
    ELSE AsF32(res.weights[name])

\* One run of ui_system.
ui_system(res, inp) ==
    [res EXCEPT
        !.map_type = IF inp.radio.some THEN inp.radio.v ELSE @,
        !.ui_checkboxes =
            set_goal_button(set_start_button(@, inp.start_clicked), inp.goal_clicked),
        !.weights =
            [name \in DOMAIN res.weights |->
                CASE name = PATH_DISTANCE_MAP_NAME ->
                        slider_value(res, inp, name, DEFAULT_PATH_DISTANCE_WEIGHT)
                  [] name = GOAL_DISTANCE_MAP_NAME ->
                        slider_value(res, inp, name, DEFAULT_GOAL_DISTANCE_WEIGHT)
                  [] name = OBSTACLE_DISTANCE_MAP_NAME ->
                        slider_value(res, inp, name, DEFAULT_OBSTACLE_DISTANCE_WEIGHT)]]

\* aaa.is_some() && button_pressed(Primary) && !ctx.is_pointer_over_area()
map_clicked(inp) ==
    inp.pointer_coordinate.some /\ inp.button_pressed /\ ~inp.is_pointer_over_area

\* if ui_checkboxes.set_start && ... { ... }  (start_position[0] is the
\* first element of the sequence)
pick_start(res, inp) ==
    IF res.ui_checkboxes.set_start /\ map_clicked(inp)
    THEN [res EXCEPT !.ui_checkboxes.set_start = FALSE,
                     !.positions[1] = inp.pointer_coordinate.v]
    ELSE res

\* if ui_checkboxes.set_goal && ... { ... }
pick_goal(res, inp) ==
    IF res.ui_checkboxes.set_goal /\ map_clicked(inp)
    THEN [res EXCEPT !.ui_checkboxes.set_goal = FALSE,
                     !.positions[2] = inp.pointer_coordinate.v,
                     !.is_run = TRUE]
    ELSE res

\* One run of update_system (the plotting reads the resources only).
update_system(res, inp) == pick_goal(pick_start(res, inp), inp)

\* The viewer's resources while only the planner is looked at.
ViewerAtRest ==
    /\ ui_checkboxes = UiCheckboxesDefault
    /\ res_positions = <<Position(0, 0), Position(0, 0)>>
    /\ res_is_run = FALSE
    /\ map_type = "PathDistanceMap"
    /\ weights = DefaultWeights

(***************************************************************************)
(* The inputs the model explores                                           *)
(***************************************************************************)
LayerNames == {"path", "goal", "obstacle"}

\* A grid of 4 x 2 cells of 6 position units each, the origin inside the
\* cell (1, 1).
MinPoint == Position(-6, -6)
MaxPoint == Position(18, 6)
Resolution == 6
GridWidth == CeilDiv(MaxPoint.x - MinPoint.x, Resolution)
GridHeight == CeilDiv(MaxPoint.y - MinPoint.y, Resolution)
CellIndexes == 0..(GridWidth * GridHeight - 1)

\* The value a distance field stores in a free cell: the steps to the row
\* of the path, to the goal cell in the far column, to the near column.
BaseValue(name, i) ==
    LET col == i % GridWidth
        row == i \div GridWidth
    IN  CASE name = "path" -> Abs(row - 1)
          [] name = "goal" -> IF GridWidth - 1 - col > Abs(row - 1)
                              THEN GridWidth - 1 - col ELSE Abs(row - 1)
          [] name = "obstacle" -> col

\* Obstacle cells are the same in every layer; a layer with no seed in
\* reach leaves its free cells Uninitialized.
LayerCells(name, obstacles, unreached) ==
    [i \in CellIndexes |->
        IF i \in obstacles THEN Obstacle
        ELSE IF name \in unreached THEN Uninitialized
        ELSE Value(BaseValue(name, i))]

ObstacleChoices == {{}, {2, 6}}
UnreachedChoices == {{}, {"goal"}}
PresentChoices == {LayerNames, {"path", "goal"}}

LayeredMaps ==
    {[name \in present |->
        GridMap(MinPoint, MaxPoint, Resolution, LayerCells(name, obstacles, unreached))] :
        <<present, obstacles, unreached>> \in
            PresentChoices \X ObstacleChoices \X UnreachedChoices}

\* Weights in fixed point: 1 is 0.5, 2 is 1.0, 3 is 1.5.
WeightTables ==
    { [name \in {"goal"} |-> 1],
      [name \in {"goal"} |-> 2],
      [name \in {"goal", "obstacle"} |-> IF name = "goal" THEN 3 ELSE 1],
      [name \in LayerNames |-> CASE name = "path" -> 1 [] name = "goal" -> 2
                                 [] name = "obstacle" -> -3] }

\* Every order a HashMap can yield the keys in.
Orders(names) ==
    {o \in [1..Cardinality(names) -> names] :
        \A a, b \in 1..Cardinality(names) : a # b => o[a] # o[b]}

LimitsChoices ==
    { Limits(Velocity(12, 1), Velocity(6, 1), Velocity(0, -1), Velocity(-6, -1)),
      Limits(Velocity(12, 2), Velocity(6, 2), Velocity(6, 0), Velocity(-6, -2)) }

Planners ==
    UNION {{DwaPlanner(c[1], c[2], o, c[3], c[4], c[5]) : o \in Orders(DOMAIN c[2])} :
           c \in LimitsChoices \X WeightTables \X {1} \X {MaxDuration}
                 \X (1..MaxSample)}
    \cup
    UNION {{DwaPlanner(c[1], c[2], o, c[3], c[4], c[5]) : o \in Orders(DOMAIN c[2])} :
           c \in LimitsChoices \X WeightTables \X {2} \X {2 * MaxDuration - 1}
                 \X (1..MaxSample)}

StartPoses == {Pose(0, 0, 0), Pose(6, 0, 1)}
StartVelocities == {Velocity(0, 0), Velocity(6, 1)}

\* The velocities forward_simulation is called on by itself.
TargetVelocities == {Velocity(0, 0), Velocity(6, 1), Velocity(12, -1)}

(***************************************************************************)
(* The state machine: a planner and a layered map are built, then the      *)
(* three operations are called on the current pose and velocity, and the   *)
(* control loop moves the robot along the returned plan.                   *)
(***************************************************************************)
Init ==
    /\ planner \in Planners
    /\ maps \in LayeredMaps
    /\ current_pose \in StartPoses
    /\ current_velocity \in StartVelocities
    /\ pc = "idle"
    /\ velocities = <<>>
    /\ target_velocity = Velocity(0, 0)
    /\ poses = <<>>
    /\ plan = PlanDefault
    /\ ticks = 0
    /\ ViewerAtRest

SampleVelocity ==
    /\ pc \notin {"panicked", "loop_panicked"}
    /\ velocities' = sample_velocity(planner, current_velocity)
    /\ pc' = "sampled"
    /\ poses' = <<>>
    /\ plan' = PlanDefault
    /\ UNCHANGED <<planner, maps, current_pose, current_velocity,
                   target_velocity, ticks>>
    /\ UNCHANGED viewer_vars

ForwardSimulation ==
    /\ pc \notin {"panicked", "loop_panicked"}
    /\ \E v \in TargetVelocities :
          /\ target_velocity' = v
          /\ poses' = forward_simulation(planner, current_pose, v)
    /\ pc' = "simulated"
    /\ velocities' = <<>>
    /\ plan' = PlanDefault
    /\ UNCHANGED <<planner, maps, current_pose, current_velocity, ticks>>
    /\ UNCHANGED viewer_vars

PlanLocalPath ==
    /\ pc \notin {"panicked", "loop_panicked"}
    /\ LET r == plan_local_path(planner, current_pose, current_velocity, maps)
       IN  IF r.panicked
           THEN pc' = "panicked" /\ plan' = PlanDefault
           ELSE pc' = "planned" /\ plan' = r.plan
    /\ velocities' = <<>>
    /\ poses' = <<>>
    /\ UNCHANGED <<planner, maps, current_pose, current_velocity,
                   target_velocity, ticks>>
    /\ UNCHANGED viewer_vars

\* The body of the control loop after the call: the plan's velocity and
\* first pose become the current ones; path[0] of an empty path panics.
Step ==
    /\ pc = "planned"
    /\ ticks < MaxTicks
    /\ IF plan.path = <<>>
       THEN /\ pc' = "loop_panicked"
            /\ UNCHANGED <<current_pose, current_velocity, ticks>>
       ELSE /\ pc' = "idle"
            /\ current_velocity' = plan.velocity
            /\ current_pose' = plan.path[1]
            /\ ticks' = ticks + 1
    /\ plan' = PlanDefault
    /\ UNCHANGED <<planner, maps, velocities, target_velocity, poses>>
    /\ UNCHANGED viewer_vars

Next == SampleVelocity \/ ForwardSimulation \/ PlanLocalPath \/ Step

Spec == Init /\ [][Next]_vars

(***************************************************************************)
(* The viewer on its own: the two systems run once per frame, in an order  *)
(* the schedule does not fix, on whatever the widgets and the pointer      *)
(* report.  The planner's state is not touched by either system.           *)
(***************************************************************************)
CurrentResources == Resources(ui_checkboxes, res_positions, res_is_run, map_type, weights)

SetResources(res) ==
    /\ ui_checkboxes' = res.ui_checkboxes
    /\ res_positions' = res.positions
    /\ res_is_run' = res.is_run
    /\ map_type' = res.map_type
    /\ weights' = res.weights

ViewerInit ==
    /\ planner = CHOOSE p \in Planners : TRUE
    /\ maps = CHOOSE m \in LayeredMaps : TRUE
    /\ current_pose = Pose(0, 0, 0)
    /\ current_velocity = Velocity(0, 0)
    /\ pc = "idle"
    /\ velocities = <<>>
    /\ target_velocity = Velocity(0, 0)
    /\ poses = <<>>
    /\ plan = PlanDefault
    /\ ticks = 0
    /\ ui_checkboxes = UiCheckboxesDefault
    /\ res_positions \in {<<Position(0, 0), Position(0, 0)>>, <<Position(0, MaxCoord), Position(MaxCoord, 0)>>}
    /\ res_is_run \in BOOLEAN
    /\ map_type \in MapTypes
    /\ weights = DefaultWeights

UiSystem ==
    \E inp \in UiInputs :
        /\ SetResources(ui_system(CurrentResources, inp))
        /\ UNCHANGED planner_vars

UpdateSystem ==
    \E inp \in PointerInputs :
        /\ SetResources(update_system(CurrentResources, inp))
        /\ UNCHANGED planner_vars

ViewerNext == UiSystem \/ UpdateSystem

ViewerSpec == ViewerInit /\ [][ViewerNext]_vars

(***************************************************************************)
(* What the claims speak of                                                *)
(***************************************************************************)
WeightedLayers == DOMAIN planner.map_name_weight
MissingLayer == \E name \in WeightedLayers : name \notin DOMAIN maps

Candidates == candidate_plans(planner, current_pose, current_velocity)

\* The pose projects onto a cell that holds a value in the layer.
OnValueCell(name, pose) ==
    LET c == cell_by_position(maps[name], Position(pose.x, pose.y))
    IN  c.some /\ c.v.tag = "Value"

\* A path is disqualified when, in some weighted layer, one of its poses is
\* out of bounds or on an Uninitialized or Obstacle cell.
Disqualified(path) ==
    \E name \in WeightedLayers : \E k \in 1..Len(path) : ~OnValueCell(name, path[k])

FLe(a, b) == a # NAN /\ b # NAN /\ a <= b
FEq(a, b) == a # NAN /\ b # NAN /\ a = b

StallPlan == Plan(Velocity(0, 0), F64_MAX, <<>>)

\* C1: the path of the plan plan_local_path returns never projects, in any
\* weighted layer, onto an Obstacle cell, an Uninitialized cell or a
\* position outside the map.
C1_PathAvoidsObstacles ==
    pc = "planned" => ~Disqualified(plan.path)

\* C2: when every candidate is disqualified in at least one weighted layer,
\* plan_local_path returns the stall plan: zero velocity and the sentinel
\* cost, whatever the weights.
C2_StallWhenAllDisqualified ==
    (pc = "planned" /\ \A k \in DOMAIN Candidates : Disqualified(Candidates[k].path))
        => (plan.velocity = Velocity(0, 0) /\ plan.cost = F64_MAX)

\* C3: every velocity sample_velocity returns lies within the velocity
\* limits on x and theta and within one step of acceleration of the
\* current velocity on both axes.
C3_SamplesAdmissible ==
    pc = "sampled" =>
        \A k \in DOMAIN velocities :
            LET v == velocities[k]
                l == planner.limits
                dt == planner.controller_dt
            IN  /\ l.min_velocity.x <= v.x /\ v.x <= l.max_velocity.x
                /\ l.min_velocity.theta <= v.theta /\ v.theta <= l.max_velocity.theta
                /\ current_velocity.x + l.min_accel.x * dt <= v.x
                /\ v.x <= current_velocity.x + l.max_accel.x * dt
                /\ current_velocity.theta + l.min_accel.theta * dt <= v.theta
                /\ v.theta <= current_velocity.theta + l.max_accel.theta * dt

\* C4: sample_velocity returns exactly (N+1)^2 + (N+1) candidates (42 for
\* N = 5), whatever the current velocity, and so never fewer than N + 1,
\* also when clamping collapses the x interval to one value.
C4_SampleCount ==
    pc = "sampled" =>
        LET n == planner.num_vel_sample
        IN  /\ Len(velocities) = (n + 1) * (n + 1) + (n + 1)
            /\ Len(velocities) >= n + 1
            /\ Len(sample_velocity([planner EXCEPT !.num_vel_sample = 5],
                                   current_velocity)) = 42

\* C4's case: the samples of a collapsed x interval.
C4_Witness ==
    /\ pc = "sampled"
    /\ planner.num_vel_sample = 2
    /\ min_x_limit(planner, current_velocity) = max_x_limit(planner, current_velocity)
    /\ Len(velocities) = 12

\* The total cost of every candidate, as plan_local_path sums it.
TotalCosts ==
    [k \in DOMAIN Candidates |-> all_layer_cost(planner, maps, Candidates[k].path).cost]

\* Candidate k is the first, in sampling order, of the candidates of
\* minimum total cost.
FirstMinimum(costs, k) ==
    /\ \A j \in DOMAIN costs : ~FLt(costs[j], costs[k])
    /\ \A j \in 1..(k - 1) : ~FEq(costs[j], costs[k])

\* C5 as stated: the returned cost is <= the total cost of every candidate
\* and the returned plan is the first candidate of minimum total cost.
C5_MinimumCostSelected ==
    pc = "planned" =>
        LET costs == TotalCosts
        IN  /\ \A k \in DOMAIN costs : FLe(plan.cost, costs[k])
            /\ \E k \in DOMAIN costs :
                  /\ FirstMinimum(costs, k)
                  /\ plan = Plan(Candidates[k].velocity, costs[k], Candidates[k].path)

\* C5 amended: when some candidate's total cost is below f64::MAX, no
\* candidate's total cost is below the returned cost and the returned plan
\* is the first candidate of minimum total cost; otherwise the default
\* plan is returned with the cost f64::MAX.
C5_MinimumCostSelectedOrStall ==
    pc = "planned" =>
        LET costs == TotalCosts
        IN  IF \E k \in DOMAIN costs : FLt(costs[k], F64_MAX)
            THEN /\ \A k \in DOMAIN costs : ~FLt(costs[k], plan.cost)
                 /\ \E k \in DOMAIN costs :
                       /\ FirstMinimum(costs, k)
                       /\ plan = Plan(Candidates[k].velocity, costs[k],
                                      Candidates[k].path)
            ELSE plan = StallPlan

\* C5's case: two candidates of different velocities tie for the minimum
\* and the earlier one is returned.
C5_Witness ==
    /\ pc = "planned"
    /\ LET costs == TotalCosts
       IN  \E j, k \in DOMAIN costs :
              /\ j < k
              /\ FirstMinimum(costs, j)
              /\ FEq(costs[j], costs[k])
              /\ Candidates[j].velocity # Candidates[k].velocity
              /\ plan.velocity = Candidates[j].velocity

\* The pose one controller_dt ahead of `pose` under the velocity v.
OneStepAhead(pose, v) ==
    Compose(pose, Pose(v.x * planner.controller_dt, 0,
                       v.theta * planner.controller_dt))

\* C6: forward_simulation returns floor(simulation_duration /
\* controller_dt) poses; the first is the current pose composed with the
\* one-step delta (the starting pose is not an element of its own) and
\* each later one is its predecessor composed with the same delta.
C6_ForwardSimulation ==
    pc = "simulated" =>
        /\ Len(poses) * planner.controller_dt <= planner.simulation_duration
        /\ (Len(poses) + 1) * planner.controller_dt > planner.simulation_duration
        /\ Len(poses) >= 1 => poses[1] = OneStepAhead(current_pose, target_velocity)
        /\ \A k \in 1..(Len(poses) - 1) :
              poses[k + 1] = OneStepAhead(poses[k], target_velocity)

\* C6's case: a quotient that is not an integer and a moving candidate.
C6_Witness ==
    /\ pc = "simulated"
    /\ planner.simulation_duration % planner.controller_dt # 0
    /\ Len(poses) >= 2
    /\ target_velocity.x # 0
    /\ poses[1] # current_pose

DoubledWeights ==
    [planner EXCEPT !.map_name_weight =
        [name \in WeightedLayers |-> FMul(AsF64(2), planner.map_name_weight[name])]]

\* C8: doubling every weight doubles the cost of the returned plan and
\* leaves its velocity and path unchanged.
C8_DoublingWeights ==
    pc = "planned" =>
        LET r == plan_local_path(DoubledWeights, current_pose, current_velocity, maps)
        IN  /\ ~r.panicked
            /\ r.plan.cost = FMul(AsF64(2), plan.cost)
            /\ r.plan.velocity = plan.velocity
            /\ r.plan.path = plan.path

\* C9: the plan returned for the same planner parameters, pose, velocity
\* and maps is the same whatever the order in which the entries of
\* map_name_weight are iterated.
C9_IndependentOfIterationOrder ==
    pc = "planned" =>
        \A o \in Orders(WeightedLayers) :
            plan_local_path([planner EXCEPT !.iter_order = o],
                            current_pose, current_velocity, maps)
                = [panicked |-> FALSE, plan |-> plan]

\* C10: when map_name_weight names a layer the layered map does not hold,
\* a call of plan_local_path panics and returns no plan.
C10_MissingLayerPanics ==
    (MissingLayer /\ pc \in {"planned", "panicked"}) => pc = "panicked"

\* C10's case: the call has panicked on the absent layer.
C10_Witness ==
    /\ pc = "panicked"
    /\ MissingLayer
    /\ current_velocity # Velocity(0, 0)


(***************************************************************************)
(* C11.  In the viewer, set_start and set_goal are never both true.  In    *)
(* every state the viewer reaches and for every input of a frame: a click  *)
(* on the map in set-start mode clears set_start and writes the clicked    *)
(* point to positions[0] and nothing else; a click on the map in set-goal  *)
(* mode clears set_goal, writes the clicked point to positions[1] and sets *)
(* is_run, and nothing else; and no run of either system other than a map  *)
(* click in set-goal mode turns is_run from false to true.                 *)
(***************************************************************************)
C11_PickMode ==
    LET res == CurrentResources IN
    /\ ~(ui_checkboxes.set_start /\ ui_checkboxes.set_goal)
    /\ \A inp \in UiInputs :
          LET new == ui_system(res, inp) IN
          /\ ~(new.ui_checkboxes.set_start /\ new.ui_checkboxes.set_goal)
          /\ new.positions = res.positions
          /\ new.is_run = res.is_run
    /\ \A inp \in PointerInputs :
          LET new == update_system(res, inp) IN
          /\ (map_clicked(inp) /\ ui_checkboxes.set_start) =>
                new = [res EXCEPT !.ui_checkboxes.set_start = FALSE,
                                  !.positions[1] = inp.pointer_coordinate.v]
          /\ (map_clicked(inp) /\ ui_checkboxes.set_goal) =>
                new = [res EXCEPT !.ui_checkboxes.set_goal = FALSE,
                                  !.positions[2] = inp.pointer_coordinate.v,
                                  !.is_run = TRUE]
          /\ (new.is_run /\ ~res.is_run) =>
                (map_clicked(inp) /\ ui_checkboxes.set_goal)

\* Both picks have been made: the start and the goal sit on points that
\* neither initial state has, the planner has been asked to run, and the
\* viewer is in set-start mode again.
C11_Witness ==
    /\ res_positions = <<Position(MaxCoord, MaxCoord), Position(0, MaxCoord)>>
    /\ res_is_run
    /\ ui_checkboxes.set_start
    /\ ~ui_checkboxes.set_goal

====
